---- MODULE Spec2Model ----
(***************************************************************************)
(* PatientStore (backend/store.py): profiles, per-patient event lists,     *)
(* annotations, saved views, follow-up tasks (memory only), the            *)
(* active-profile pointer, the JSON snapshot patient_data.json and         *)
(* whether that file can be written.                                       *)
(*                                                                         *)
(* Python dicts keep insertion order and the code relies on it             *)
(* (list(self._profiles.keys())[0], the scan order of delete_event), so a  *)
(* dict is a sequence of [k, v] entries.  Python None is the token PyNone. *)
(* Strings that the code compares (timestamps) are sequences of character  *)
(* codes, compared as Python compares str.                                 *)
(***************************************************************************)
EXTENDS Integers, Sequences, FiniteSets, TLC

VARIABLES profiles, active, events, annotations, views, tasks, nextUuid, disk,
          writable, last

vars == <<profiles, active, events, annotations, views, tasks, nextUuid, disk,
          writable, last>>

(* ------------------------------ bounds -------------------------------- *)
MaxProfiles == 2
MaxEvents == 3
MaxAux == 1
MaxUuid == 1
MaxTasks == 3

(* ------------------------- Python values ------------------------------ *)
PyNone == "<None>"
Absent == "<absent>"

(* ------------------------- ordered dicts ------------------------------ *)
Keys(d) == {d[i].k : i \in DOMAIN d}

Has(d, k) == \E i \in DOMAIN d : d[i].k = k

Get(d, k) == d[CHOOSE i \in DOMAIN d : d[i].k = k].v

GetOr(d, k, dflt) == IF Has(d, k) THEN Get(d, k) ELSE dflt

Put(d, k, v) ==
  IF Has(d, k)
  THEN [i \in DOMAIN d |-> IF d[i].k = k THEN [k |-> k, v |-> v] ELSE d[i]]
  ELSE Append(d, [k |-> k, v |-> v])

Del(d, k) == SelectSeq(d, LAMBDA e : e.k # k)

RemoveAt(s, i) == [j \in 1..(Len(s) - 1) |-> IF j < i THEN s[j] ELSE s[j + 1]]

(* --------------------- timestamps as strings -------------------------- *)
(* An ISO-8601 timestamp "2024-01-01THH:00:00<suffix>" is abbreviated to   *)
(* the characters that vary: "HH", "HHZ" or "HH+HH"; character codes are   *)
(* ASCII, so the order of the abbreviations is the order of the strings.   *)
ChPlus == 43
ChZ == 90
ChX == 120
Dg(n) == 48 + n

TsNaive(h) == <<Dg(h \div 10), Dg(h % 10)>>
TsZulu(h) == <<Dg(h \div 10), Dg(h % 10), ChZ>>
TsOffset(h, o) == <<Dg(h \div 10), Dg(h % 10), ChPlus, Dg(o \div 10), Dg(o % 10)>>
TsGarbage == <<ChX, ChX>>

(* Python str comparison a < b: lexicographic on code points. *)
StrLess(a, b) ==
  \E i \in 1..(Len(a) + 1) :
     /\ i <= Len(b)
     /\ \A j \in 1..(i - 1) : a[j] = b[j]
     /\ (i = Len(a) + 1 \/ a[i] < b[i])

IsDigit(c) == c \in 48..57
Num2(s, i) == (s[i] - 48) * 10 + (s[i + 1] - 48)

(* dateutil.parser.parse: the naive date-time fields and the tzinfo, or a  *)
(* ValueError (ok = FALSE).                                                *)
ParseTs(s) ==
  IF Len(s) >= 2 /\ IsDigit(s[1]) /\ IsDigit(s[2])
  THEN IF Len(s) = 2
       THEN [ok |-> TRUE, naive |-> Num2(s, 1), aware |-> FALSE, off |-> 0]
       ELSE IF Len(s) = 3 /\ s[3] = ChZ
       THEN [ok |-> TRUE, naive |-> Num2(s, 1), aware |-> TRUE, off |-> 0]
       ELSE IF Len(s) = 5 /\ s[3] = ChPlus /\ IsDigit(s[4]) /\ IsDigit(s[5])
       THEN [ok |-> TRUE, naive |-> Num2(s, 1), aware |-> TRUE, off |-> Num2(s, 4)]
       ELSE [ok |-> FALSE, naive |-> 0, aware |-> FALSE, off |-> 0]
  ELSE [ok |-> FALSE, naive |-> 0, aware |-> FALSE, off |-> 0]

(* sorted(xs, key=lambda x: x.timestamp, reverse=True): Python's sort is   *)
(* stable, also with reverse=True: equal keys keep their original order.   *)
RECURSIVE InsertDescFront(_, _)
InsertDescFront(e, s) ==
  IF s = <<>> THEN <<e>>
  ELSE IF ~StrLess(e.timestamp, Head(s).timestamp)
       THEN <<e>> \o s
       ELSE <<Head(s)>> \o InsertDescFront(e, Tail(s))

RECURSIVE InsertDesc(_, _)
InsertDesc(e, s) ==
  IF s = <<>> THEN <<e>>
  ELSE IF StrLess(Head(s).timestamp, e.timestamp)
       THEN <<e>> \o s
       ELSE <<Head(s)>> \o InsertDesc(e, Tail(s))

RECURSIVE SortedDesc(_)
SortedDesc(s) ==
  IF s = <<>> THEN <<>>
  ELSE InsertDesc(s[Len(s)], SortedDesc(SubSeq(s, 1, Len(s) - 1)))

(* ------------------------------ events -------------------------------- *)
EventTypes == {"symptom", "wellness", "treatment", "workflow_result", "lifestyle"}
Routes == {"green", "yellow", "red"}

(* The event class add_event, load_data and the profile generator pick     *)
(* for an event_type value; anything else falls to BaseEvent.              *)
ClassOf(event_type) ==
  CASE event_type = "symptom" -> "SymptomEvent"
    [] event_type = "wellness" -> "WellnessEvent"
    [] event_type = "treatment" -> "TreatmentEvent"
    [] event_type = "workflow_result" -> "WorkflowResultEvent"
    [] event_type = "lifestyle" -> "LifestyleEvent"
    [] OTHER -> "BaseEvent"

(* pydantic validation of the dict d by the model class cls. *)
Validates(cls, d) ==
  /\ d.id # Absent
  /\ d.patient_id # Absent
  /\ d.timestamp # <<>>
  /\ d.event_type \in EventTypes
  /\ cls \in {"TreatmentEvent", "LifestyleEvent"} => d.name # Absent
  /\ cls = "WorkflowResultEvent" => d.workflow_name # Absent /\ d.route \in Routes

(* The object built by cls from the keyword arguments d: the declared     *)
(* fields only, defaults filled in.                                       *)
Construct(cls, d) ==
  [cls |-> cls,
   id |-> d.id,
   patient_id |-> d.patient_id,
   timestamp |-> d.timestamp,
   event_type |-> d.event_type,
   name |-> IF cls \in {"TreatmentEvent", "LifestyleEvent"} THEN d.name ELSE Absent,
   workflow_name |-> IF cls = "WorkflowResultEvent" THEN d.workflow_name ELSE Absent,
   route |-> IF cls = "WorkflowResultEvent" THEN d.route ELSE Absent,
   clinician_summary |->
     IF cls = "WorkflowResultEvent"
     THEN (IF d.clinician_summary = Absent THEN PyNone ELSE d.clinician_summary)
     ELSE Absent,
   safety_flags |-> IF cls = "WorkflowResultEvent" THEN d.safety_flags ELSE {}]

(* e.dict(): the fields of the object, without its class. *)
EventDict(e) ==
  [id |-> e.id,
   patient_id |-> e.patient_id,
   timestamp |-> e.timestamp,
   event_type |-> e.event_type,
   name |-> e.name,
   workflow_name |-> e.workflow_name,
   route |-> e.route,
   clinician_summary |-> e.clinician_summary,
   safety_flags |-> e.safety_flags]

Raw(id, pid, ts, ty) ==
  [id |-> id, patient_id |-> pid, timestamp |-> ts, event_type |-> ty,
   name |-> Absent, workflow_name |-> Absent, route |-> Absent,
   clinician_summary |-> Absent, safety_flags |-> {}]

Triage(id, pid, ts, route, flags) ==
  [Raw(id, pid, ts, "workflow_result") EXCEPT
     !.workflow_name = "symptom_triage", !.route = route,
     !.clinician_summary = "summary", !.safety_flags = flags]

(* ---------------------------- persistence ----------------------------- *)
(* json.dump writes a dict key that is None as the string "null". *)
JsonKey(k) == IF k = PyNone THEN "null" ELSE k

EventDicts(es) == [j \in DOMAIN es |-> EventDict(es[j])]

(* save_data: the document written to patient_data.json.  A JSON object is *)
(* the sequence of its members in the order written.                       *)
SaveData(P, E, A, V, act) ==
  [profiles |-> [i \in DOMAIN P |-> [k |-> JsonKey(P[i].k), v |-> P[i].v]],
   events |-> [i \in DOMAIN E |-> [k |-> JsonKey(E[i].k), v |-> EventDicts(E[i].v)]],
   annotations |-> [i \in DOMAIN A |-> [k |-> JsonKey(A[i].k), v |-> A[i].v]],
   saved_views |-> [i \in DOMAIN V |-> [k |-> JsonKey(V[i].k), v |-> V[i].v]],
   active_profile_id |-> act]

(* json.load of an object: members are stored in order, a repeated key     *)
(* keeps its first position and its last value.                            *)
RECURSIVE JsonObject(_)
JsonObject(members) ==
  IF members = <<>> THEN <<>>
  ELSE LET m == members[Len(members)]
       IN Put(JsonObject(SubSeq(members, 1, Len(members) - 1)), m.k, m.v)

LoadEvents(ds) == [j \in DOMAIN ds |-> Construct(ClassOf(ds[j].event_type), ds[j])]

(* load_data on an existing snapshot: the fields of the store it sets. *)
LoadData(doc) ==
  LET ev == JsonObject(doc.events)
  IN [profiles |-> JsonObject(doc.profiles),
      events |-> [i \in DOMAIN ev |-> [k |-> ev[i].k, v |-> LoadEvents(ev[i].v)]],
      annotations |-> JsonObject(doc.annotations),
      views |-> JsonObject(doc.saved_views),
      active |-> doc.active_profile_id]

Memory ==
  [profiles |-> profiles, events |-> events, annotations |-> annotations,
   views |-> views, active |-> active]

(* ------------------------------- reads -------------------------------- *)
GetProfile(profile_id) == GetOr(profiles, profile_id, PyNone)

GetActiveProfile == GetOr(profiles, active, PyNone)

GetEventsUnsorted(patient_id) == GetOr(events, patient_id, <<>>)

GetEvents(patient_id) == SortedDesc(GetOr(events, patient_id, <<>>))

EventTimeConverted(t) == t.naive - t.off

(* event_time after "if event_time.tzinfo is not None: event_time =        *)
(* event_time.replace(tzinfo=None)": the written fields, offset dropped.    *)
EventTime(t) == t.naive

InCutoffStrict(event_time, cutoff) == event_time > cutoff

(* "if event_time >= cutoff" *)
InCutoff(event_time, cutoff) == event_time >= cutoff

TypeOkIgnored(event, event_types) == TRUE

(* "if event_types is None or event.event_type in event_types" *)
TypeOk(event, event_types) == ~event_types.given \/ event.event_type \in event_types.types

(* The loop of get_recent_events over events[1..n]. *)
RECURSIVE RecentLoop(_, _, _, _)
RecentLoop(evs, n, cutoff, event_types) ==
  IF n = 0 THEN <<>>
  ELSE LET rest == RecentLoop(evs, n - 1, cutoff, event_types)
           t == ParseTs(evs[n].timestamp)
       IN IF ~t.ok THEN rest
          ELSE IF InCutoff(EventTime(t), cutoff) /\ TypeOk(evs[n], event_types)
               THEN Append(rest, evs[n])
               ELSE rest

GetRecentEvents(patient_id, window_hours, event_types, now) ==
  LET evs == GetOr(events, patient_id, <<>>)
  IN IF evs = <<>> THEN <<>>
     ELSE SortedDesc(RecentLoop(evs, Len(evs), now - window_hours, event_types))

NoTypes == [given |-> FALSE, types |-> {}]
Types(S) == [given |-> TRUE, types |-> S]

(* ----------------------------- agent tools ----------------------------- *)
(* The get_recent_events tool. event_types is None (given = FALSE) or a    *)
(* list of names; the loop appends the enum of each name it knows, and it  *)
(* knows four: a name with no branch, "lifestyle" among them, adds         *)
(* nothing.                                                                *)
RECURSIVE ToolTypeLoop(_)
ToolTypeLoop(names) ==
  IF names = <<>> THEN <<>>
  ELSE LET et == Head(names)
           rest == ToolTypeLoop(Tail(names))
       IN IF et \in {"symptom", "wellness", "treatment", "workflow_result"}
          THEN <<et>> \o rest
          ELSE rest

(* "type_filter = None; if event_types: type_filter = [] ..." *)
ToolTypeFilter(event_types) ==
  IF event_types.given /\ event_types.names # <<>>
  THEN Types({ToolTypeLoop(event_types.names)[i] :
                i \in DOMAIN ToolTypeLoop(event_types.names)})
  ELSE NoTypes

ToolGetRecentEvents(patient_id, window_hours, event_types, now) ==
  GetRecentEvents(patient_id, window_hours, ToolTypeFilter(event_types), now)

NoNames == [given |-> FALSE, names |-> <<>>]
Names(l) == [given |-> TRUE, names |-> l]

(* ------------------------------ the store ----------------------------- *)
Profile(id, name) == [id |-> id, name |-> name]

Result(op, ret) == [op |-> op, ret |-> ret]

TotalEvents(E) == Cardinality(UNION {{<<i, j>> : j \in DOMAIN E[i].v} : i \in DOMAIN E})

UuidStr == <<"uuid-1", "uuid-2", "uuid-3", "uuid-4">>

(* The state create_new_profile leaves, as [profiles, active, events]. *)
NewProfile(P, E, new_id, name) ==
  [profiles |-> Put(P, new_id, Profile(new_id, name)),
   active |-> new_id,
   events |-> Put(E, new_id, <<>>)]

(* The clinical fields create_new_profile samples.  No store operation     *)
(* reads them, so Profile keeps id and name only; MockProfile is the       *)
(* profile with the cancer type, the regimen and the ECOG score it was     *)
(* given, a draw being the outcome of the two random.choice calls and of   *)
(* random.randint(0, 2).                                                   *)
CancerTypes ==
  <<"Lung Adenocarcinoma", "Breast Invasive Ductal Carcinoma",
    "Colorectal Adenocarcinoma", "Pancreatic Ductal Adenocarcinoma">>

Regimens ==
  <<"Carboplatin + Pemetrexed",
    "AC-T (Doxorubicin + Cyclophosphamide -> Paclitaxel)",
    "FOLFOX", "Gemcitabine + Nab-Paclitaxel">>

Draws == [cancer : 1..4, regimen : 1..4, ecog : 0..2]

MockProfile(new_id, name, draw) ==
  [id |-> new_id, name |-> name,
   cancer_type |-> CancerTypes[draw.cancer],
   regimen |-> Regimens[draw.regimen],
   ecog_score |-> draw.ecog]

(* PatientStore() with no patient_data.json: load_data bootstraps. *)
Init ==
  LET s == NewProfile(<<>>, <<>>, "default", "John Doe")
  IN /\ profiles = s.profiles
     /\ active = s.active
     /\ events = s.events
     /\ annotations = <<>>
     /\ views = <<>>
     /\ tasks = <<>>
     /\ nextUuid = 0
     /\ writable = TRUE
     /\ disk = SaveData(s.profiles, s.events, <<>>, <<>>, s.active)
     /\ last = Result("init", "profile")

(* save_data at the end of a mutating method.  open(DATA_FILE, "w") is not  *)
(* guarded: when the file cannot be opened the file stays as it was and    *)
(* the exception leaves the method in place of its return value.           *)
Persist ==
  disk' = IF writable
          THEN SaveData(profiles', events', annotations', views', active')
          ELSE disk

Saved(op, ret) == Result(op, IF writable THEN ret ELSE "OSError")

CreateNewProfile(name) ==
  /\ nextUuid < MaxUuid
  /\ Len(profiles) < MaxProfiles
  /\ LET new_id == UuidStr[nextUuid + 1]
         s == NewProfile(profiles, events, new_id, name)
     IN /\ profiles' = s.profiles
        /\ active' = s.active
        /\ events' = s.events
        /\ last' = Saved("create_new_profile", "profile")
  /\ nextUuid' = nextUuid + 1
  /\ UNCHANGED <<annotations, views, tasks, writable>>
  /\ Persist

(* create_new_profile(name) with the sampled fields kept. *)
CreateNewProfileDrawn(name, draw) ==
  /\ nextUuid < MaxUuid
  /\ Len(profiles) < MaxProfiles
  /\ LET new_id == UuidStr[nextUuid + 1]
     IN /\ profiles' = Put(profiles, new_id, MockProfile(new_id, name, draw))
        /\ active' = new_id
        /\ events' = Put(events, new_id, <<>>)
        /\ last' = Saved("create_new_profile", "profile")
  /\ nextUuid' = nextUuid + 1
  /\ UNCHANGED <<annotations, views, tasks, writable>>
  /\ Persist

SwitchProfileUnchecked(profile_id) ==
  /\ active' = profile_id
  /\ last' = Saved("switch_profile", "profile")
  /\ UNCHANGED <<profiles, events, annotations, views, nextUuid, tasks, writable>>
  /\ Persist

SwitchProfile(profile_id) ==
  IF Has(profiles, profile_id)
  THEN /\ active' = profile_id
       /\ last' = Saved("switch_profile", "profile")
       /\ UNCHANGED <<profiles, events, annotations, views, nextUuid, tasks, writable>>
       /\ Persist
  ELSE /\ last' = Result("switch_profile", "none")
       /\ UNCHANGED <<profiles, active, events, annotations, views, nextUuid, tasks, writable, disk>>

AfterDeleteNoBootstrap(profile_id) ==
  LET P == Del(profiles, profile_id)
      E == Del(events, profile_id)
  IN IF active = profile_id /\ Len(P) > 0
     THEN [profiles |-> P, active |-> P[1].k, events |-> E]
     ELSE [profiles |-> P, active |-> active, events |-> E]

AfterDeleteStale(profile_id) ==
  LET P == Del(profiles, profile_id)
      E == Del(events, profile_id)
  IN IF active = profile_id /\ Len(P) = 0
     THEN NewProfile(P, E, "default", "John Doe")
     ELSE [profiles |-> P, active |-> active, events |-> E]

AfterDeleteKeepsEvents(profile_id) ==
  LET P == Del(profiles, profile_id)
  IN IF active = profile_id
     THEN IF Len(P) > 0
          THEN [profiles |-> P, active |-> P[1].k, events |-> events]
          ELSE NewProfile(P, events, "default", "John Doe")
     ELSE [profiles |-> P, active |-> active, events |-> events]

(* The state delete_profile leaves for a known id. *)
AfterDelete(profile_id) ==
  LET P == Del(profiles, profile_id)
      E == Del(events, profile_id)
  IN IF active = profile_id
     THEN IF Len(P) > 0
          THEN [profiles |-> P, active |-> P[1].k, events |-> E]
          ELSE NewProfile(P, E, "default", "John Doe")
     ELSE [profiles |-> P, active |-> active, events |-> E]

DeleteProfileCascades(profile_id) ==
  IF Has(profiles, profile_id)
  THEN /\ LET s == AfterDelete(profile_id)
          IN /\ profiles' = s.profiles
             /\ active' = s.active
             /\ events' = s.events
       /\ annotations' = Del(annotations, profile_id)
       /\ views' = Del(views, profile_id)
       /\ tasks' = Del(tasks, profile_id)
       /\ last' = Saved("delete_profile", "true")
       /\ UNCHANGED <<nextUuid, writable>>
       /\ Persist
  ELSE /\ last' = Result("delete_profile", "false")
       /\ UNCHANGED <<profiles, active, events, annotations, views, nextUuid, tasks, writable, disk>>

DeleteProfile(profile_id) ==
  IF Has(profiles, profile_id)
  THEN /\ LET s == AfterDelete(profile_id)
          IN /\ profiles' = s.profiles
             /\ active' = s.active
             /\ events' = s.events
       /\ last' = Saved("delete_profile", "true")
       /\ UNCHANGED <<annotations, views, nextUuid, tasks, writable>>
       /\ Persist
  ELSE /\ last' = Result("delete_profile", "false")
       /\ UNCHANGED <<profiles, active, events, annotations, views, nextUuid, tasks, writable, disk>>

CreateProfileWithEvents(profile, evs) ==
  /\ Has(profiles, profile.id) \/ Len(profiles) < MaxProfiles
  /\ TotalEvents(Del(events, profile.id)) + Len(evs) <= MaxEvents
  /\ profiles' = Put(profiles, profile.id, profile)
  /\ active' = profile.id
  /\ events' = Put(events, profile.id, evs)
  /\ last' = Saved("create_profile_with_events", "profile")
  /\ UNCHANGED <<annotations, views, nextUuid, tasks, writable>>
  /\ Persist

SaveProfileActivates(profile) ==
  /\ Has(profiles, profile.id) \/ Len(profiles) < MaxProfiles
  /\ profiles' = Put(profiles, profile.id, profile)
  /\ active' = profile.id
  /\ events' = IF Has(events, profile.id) THEN events ELSE Put(events, profile.id, <<>>)
  /\ last' = Saved("save_profile", "profile")
  /\ UNCHANGED <<annotations, views, nextUuid, tasks, writable>>
  /\ Persist

SaveProfile(profile) ==
  /\ Has(profiles, profile.id) \/ Len(profiles) < MaxProfiles
  /\ profiles' = Put(profiles, profile.id, profile)
  /\ active' = IF active = profile.id THEN profile.id ELSE active
  /\ events' = IF Has(events, profile.id) THEN events ELSE Put(events, profile.id, <<>>)
  /\ last' = Saved("save_profile", "profile")
  /\ UNCHANGED <<annotations, views, nextUuid, tasks, writable>>
  /\ Persist

(* "if not patient_id": absent, None and the empty string are rejected. *)
Falsy(x) == x \in {Absent, PyNone, ""}

AddEvent(event_data) ==
  LET patient_id == event_data.patient_id
      cls == ClassOf(event_data.event_type)
      E1 == IF Has(events, patient_id) THEN events ELSE Put(events, patient_id, <<>>)
  IN IF Falsy(patient_id)
     THEN /\ last' = Result("add_event", "ValueError")
          /\ UNCHANGED <<profiles, active, events, annotations, views, nextUuid, tasks, writable, disk>>
     ELSE IF ~Validates(cls, event_data)
     THEN /\ events' = E1
          /\ last' = Result("add_event", "ValidationError")
          /\ UNCHANGED <<profiles, active, annotations, views, nextUuid, tasks, writable, disk>>
     ELSE /\ TotalEvents(events) < MaxEvents
          /\ events' = Put(E1, patient_id, Append(Get(E1, patient_id), Construct(cls, event_data)))
          /\ last' = Saved("add_event", "event")
          /\ UNCHANGED <<profiles, active, annotations, views, nextUuid, tasks, writable>>
          /\ Persist

(* Every entry of the dict with the elements carrying id removed. *)
WithoutId(E, id) == [i \in DOMAIN E |-> [k |-> E[i].k, v |-> SelectSeq(E[i].v, LAMBDA e : e.id # id)]]

(* The first (dict order, then list order) position holding event_id. *)
Hits(E, event_id) ==
  {<<i, j>> \in UNION {{<<i, j>> : j \in DOMAIN E[i].v} : i \in DOMAIN E} :
     E[i].v[j].id = event_id}

FirstHit(E, event_id) ==
  CHOOSE h \in Hits(E, event_id) :
    \A g \in Hits(E, event_id) : h[1] < g[1] \/ (h[1] = g[1] /\ h[2] <= g[2])

DeleteEventEvery(event_id) ==
  IF Hits(events, event_id) # {}
  THEN /\ events' = WithoutId(events, event_id)
       /\ last' = Saved("delete_event", "true")
       /\ UNCHANGED <<profiles, active, annotations, views, nextUuid, tasks, writable>>
       /\ Persist
  ELSE /\ last' = Result("delete_event", "false")
       /\ UNCHANGED <<profiles, active, events, annotations, views, nextUuid, tasks, writable, disk>>

DeleteEvent(event_id) ==
  IF Hits(events, event_id) # {}
  THEN /\ LET h == FirstHit(events, event_id)
          IN events' = [events EXCEPT ![h[1]].v = RemoveAt(@, h[2])]
       /\ last' = Saved("delete_event", "true")
       /\ UNCHANGED <<profiles, active, annotations, views, nextUuid, tasks, writable>>
       /\ Persist
  ELSE /\ last' = Result("delete_event", "false")
       /\ UNCHANGED <<profiles, active, events, annotations, views, nextUuid, tasks, writable, disk>>

Annotation(id, pid) == [id |-> id, patient_id |-> pid, title |-> "note"]
SavedView(id, pid) == [id |-> id, patient_id |-> pid, name |-> "view"]

(* self._annotations.get(patient_id, []) *)
GetAnnotations(patient_id) == GetOr(annotations, patient_id, <<>>)

(* self._saved_views.get(patient_id, []) *)
GetSavedViews(patient_id) == GetOr(views, patient_id, <<>>)

AddAnnotation(annotation) ==
  /\ TotalEvents(annotations) < MaxAux
  /\ annotations' = Put(annotations, annotation.patient_id,
                        Append(GetOr(annotations, annotation.patient_id, <<>>), annotation))
  /\ last' = Saved("add_annotation", "annotation")
  /\ UNCHANGED <<profiles, active, events, views, nextUuid, tasks, writable>>
  /\ Persist

DeleteAnnotation(annotation_id) ==
  IF Hits(annotations, annotation_id) # {}
  THEN /\ LET h == FirstHit(annotations, annotation_id)
          IN annotations' = [annotations EXCEPT ![h[1]].v = RemoveAt(@, h[2])]
       /\ last' = Saved("delete_annotation", "true")
       /\ UNCHANGED <<profiles, active, events, views, nextUuid, tasks, writable>>
       /\ Persist
  ELSE /\ last' = Result("delete_annotation", "false")
       /\ UNCHANGED <<profiles, active, events, annotations, views, nextUuid, tasks, writable, disk>>

AddSavedView(view) ==
  /\ TotalEvents(views) < MaxAux
  /\ views' = Put(views, view.patient_id, Append(GetOr(views, view.patient_id, <<>>), view))
  /\ last' = Saved("add_saved_view", "view")
  /\ UNCHANGED <<profiles, active, events, annotations, nextUuid, tasks, writable>>
  /\ Persist

DeleteSavedView(view_id) ==
  IF Hits(views, view_id) # {}
  THEN /\ LET h == FirstHit(views, view_id)
          IN views' = [views EXCEPT ![h[1]].v = RemoveAt(@, h[2])]
       /\ last' = Saved("delete_saved_view", "true")
       /\ UNCHANGED <<profiles, active, events, annotations, nextUuid, tasks, writable>>
       /\ Persist
  ELSE /\ last' = Result("delete_saved_view", "false")
       /\ UNCHANGED <<profiles, active, events, annotations, views, nextUuid, tasks, writable, disk>>

(* --------------------------- follow-up tasks --------------------------- *)
(* The tasks live in memory only: no method below calls save_data. *)
TaskUrgencies == {"routine", "urgent", "stat"}
TaskStatuses == {"pending", "in_progress", "completed", "cancelled"}

FollowupTask(id, pid, urgency, status) ==
  [id |-> id, patient_id |-> pid, urgency |-> urgency, status |-> status]

UrgencyOrderReversed(urgency) ==
  CASE urgency = "stat" -> 2
    [] urgency = "urgent" -> 1
    [] urgency = "routine" -> 0
    [] OTHER -> 99

(* urgency_order.get(t.urgency.value, 99) *)
UrgencyOrder(urgency) ==
  CASE urgency = "stat" -> 0
    [] urgency = "urgent" -> 1
    [] urgency = "routine" -> 2
    [] OTHER -> 99

(* sorted(tasks, key=...): ascending and stable. *)
RECURSIVE InsertAsc(_, _)
InsertAsc(t, s) ==
  IF s = <<>> THEN <<t>>
  ELSE IF UrgencyOrder(t.urgency) < UrgencyOrder(Head(s).urgency)
       THEN <<t>> \o s
       ELSE <<Head(s)>> \o InsertAsc(t, Tail(s))

RECURSIVE SortedByUrgency(_)
SortedByUrgency(s) ==
  IF s = <<>> THEN <<>>
  ELSE InsertAsc(s[Len(s)], SortedByUrgency(SubSeq(s, 1, Len(s) - 1)))

GetFollowupTasks(patient_id, status) ==
  LET ts == GetOr(tasks, patient_id, <<>>)
      kept == IF status # PyNone THEN SelectSeq(ts, LAMBDA t : t.status = status) ELSE ts
  IN SortedByUrgency(kept)

AddFollowupTaskReplaces(task) ==
  /\ TotalEvents(tasks) < MaxTasks
  /\ tasks' = Put(tasks, task.patient_id, <<task>>)
  /\ last' = Result("add_followup_task", "task")
  /\ UNCHANGED <<profiles, active, events, annotations, views, nextUuid, writable, disk>>

AddFollowupTask(task) ==
  /\ TotalEvents(tasks) < MaxTasks
  /\ tasks' = Put(tasks, task.patient_id,
                  Append(GetOr(tasks, task.patient_id, <<>>), task))
  /\ last' = Result("add_followup_task", "task")
  /\ UNCHANGED <<profiles, active, events, annotations, views, nextUuid, writable, disk>>

UpdateTaskStatus(task_id, new_status) ==
  IF Hits(tasks, task_id) # {}
  THEN /\ LET h == FirstHit(tasks, task_id)
          IN tasks' = [tasks EXCEPT ![h[1]].v[h[2]].status = new_status]
       /\ last' = Result("update_task_status", "task")
       /\ UNCHANGED <<profiles, active, events, annotations, views, nextUuid, writable, disk>>
  ELSE /\ last' = Result("update_task_status", "none")
       /\ UNCHANGED <<profiles, active, events, annotations, views, tasks, nextUuid,
                      writable, disk>>

(* ---------------------------- environment ----------------------------- *)
(* patient_data.json becomes unwritable (read-only or full file system),   *)
(* or writable again.                                                      *)
SetWritable(b) ==
  /\ writable # b
  /\ writable' = b
  /\ last' = Result("environment", "file")
  /\ UNCHANGED <<profiles, active, events, annotations, views, tasks, nextUuid, disk>>

(* ------------------------------- agents ------------------------------- *)
(* str(uuid.uuid4()) for an event: an id that no stored event carries.     *)
EventUuids == <<"ev-1", "ev-2", "ev-3", "ev-4", "ev-5">>

StoredEventIds(E) == UNION {{E[i].v[j].id : j \in DOMAIN E[i].v} : i \in DOMAIN E}

FreshEventId(E) ==
  EventUuids[CHOOSE n \in DOMAIN EventUuids :
               /\ EventUuids[n] \notin StoredEventIds(E)
               /\ \A m \in 1..(n - 1) : EventUuids[m] \in StoredEventIds(E)]

(* datetime.utcnow() at the hour of the call. *)
UtcNow == 12

(* store.add_event as a function of the event dict and the snapshot file:  *)
(* the dict and the file it leaves, and the event returned or the          *)
(* exception raised.                                                       *)
StoreAddEvent(E, dsk, event_data) ==
  LET patient_id == event_data.patient_id
      cls == ClassOf(event_data.event_type)
      E1 == IF Has(E, patient_id) THEN E ELSE Put(E, patient_id, <<>>)
      E2 == Put(E1, patient_id, Append(Get(E1, patient_id), Construct(cls, event_data)))
  IN IF Falsy(patient_id)
     THEN [events |-> E, disk |-> dsk, ret |-> "ValueError"]
     ELSE IF ~Validates(cls, event_data)
     THEN [events |-> E1, disk |-> dsk, ret |-> "ValidationError"]
     ELSE IF writable
     THEN [events |-> E2,
           disk |-> SaveData(profiles, E2, annotations, views, active),
           ret |-> "event"]
     ELSE [events |-> E2, disk |-> dsk, ret |-> "OSError"]

(* tools.log_workflow_result: a workflow_result event with a new id and    *)
(* the current time, handed to store.add_event.                            *)
LogWorkflowResult(E, dsk, patient_id, result, workflow_name) ==
  StoreAddEvent(E, dsk,
    [Raw(FreshEventId(E), patient_id, TsZulu(UtcNow), "workflow_result") EXCEPT
       !.workflow_name = workflow_name,
       !.route = result.route,
       !.clinician_summary = result.clinician_summary,
       !.safety_flags = result.safety_flags])

(* tools.log_symptom_event. *)
LogSymptomEvent(E, dsk, patient_id) ==
  StoreAddEvent(E, dsk, Raw(FreshEventId(E), patient_id, TsZulu(UtcNow), "symptom"))

(* The WorkflowResultInput escalate_to_human builds. *)
EscalationResultInput ==
  [route |-> "red",
   clinician_summary |-> "ESCALATION",
   safety_flags |-> {"human_escalation_triggered"}]

EscalateToHumanSwallows(patient_id) ==
  LET r == LogWorkflowResult(events, disk, patient_id, EscalationResultInput,
                             "human_escalation")
  IN /\ TotalEvents(events) < MaxEvents
     /\ events' = r.events
     /\ disk' = r.disk
     /\ last' = Result("escalate_to_human", "acknowledged")
     /\ UNCHANGED <<profiles, active, annotations, views, nextUuid, tasks, writable>>

(* tools.escalate_to_human: the escalation is logged first; an exception   *)
(* of the logging leaves the function before the result is built.          *)
EscalateToHuman(patient_id) ==
  LET r == LogWorkflowResult(events, disk, patient_id, EscalationResultInput,
                             "human_escalation")
  IN /\ TotalEvents(events) < MaxEvents
     /\ events' = r.events
     /\ disk' = r.disk
     /\ last' = Result("escalate_to_human",
                       IF r.ret = "event" THEN "acknowledged" ELSE r.ret)
     /\ UNCHANGED <<profiles, active, annotations, views, nextUuid, tasks, writable>>

(* A tool_use block of the language model: the tool name and the keys of   *)
(* tool_input that matter (Absent: the key is missing).                    *)
ToolCall(tool, route, patient_summary) ==
  [tool |-> tool, route |-> route, patient_summary |-> patient_summary]

(* route_map.get(tool_input["route"], TriageRoute.GREEN) *)
RouteMap(route) == IF route \in {"green", "yellow", "red"} THEN route ELSE "green"

(* CheckinAgent._execute_tool: every exception is caught and becomes the   *)
(* result None with a "Tool error" description.                            *)
ExecuteTool(E, dsk, call, patient_id) ==
  IF call.tool = "log_symptom_event"
  THEN LogSymptomEvent(E, dsk, patient_id)
  ELSE IF call.tool = "log_workflow_result"
  THEN IF call.route = Absent \/ call.patient_summary = Absent
       THEN [events |-> E, disk |-> dsk, ret |-> "KeyError"]
       ELSE LogWorkflowResult(E, dsk, patient_id,
                              [route |-> RouteMap(call.route),
                               clinician_summary |-> PyNone,
                               safety_flags |-> {}],
                              "health_checkin")
  ELSE [events |-> E, disk |-> dsk, ret |-> "Unknown tool"]

(* The tool_use blocks of one process_message, executed in order. *)
RECURSIVE ToolLoop(_, _, _, _)
ToolLoop(E, dsk, calls, patient_id) ==
  IF calls = <<>> THEN [events |-> E, disk |-> dsk]
  ELSE LET r == ExecuteTool(E, dsk, Head(calls), patient_id)
       IN ToolLoop(r.events, r.disk, Tail(calls), patient_id)

(* CheckinAgent.process_message on the state of the request and the tool   *)
(* calls the language model makes: is_complete is set for every            *)
(* log_workflow_result block, whatever _execute_tool returned.  The        *)
(* handler of a failing model call returns the same state.                 *)
ProcessMessage(state, calls) ==
  LET r == ToolLoop(events, disk, calls, state.patient_id)
      is_complete == \/ state.is_complete
                     \/ \E i \in DOMAIN calls : calls[i].tool = "log_workflow_result"
  IN /\ TotalEvents(events) + Len(calls) <= MaxEvents
     /\ events' = r.events
     /\ disk' = r.disk
     /\ last' = Result("process_message",
                       IF is_complete THEN "complete" ELSE "incomplete")
     /\ UNCHANGED <<profiles, active, annotations, views, nextUuid, tasks, writable>>

(* ------------------------- check-in questions ------------------------- *)
(* A question and the reasoning entry appended with it.  The text is       *)
(* abbreviated to a tag; arg is what the f-string inserts (the symptom     *)
(* names, the treatment name), level the anxiety level it quotes.          *)
Question(q, arg) == [q |-> q, arg |-> arg]
Reason(r, arg, level) == [r |-> r, arg |-> arg, level |-> level]

NoQuestions == [questions |-> <<>>, reasoning |-> <<>>]

(* questions.append(...); reasoning.append(...) *)
Ask(qr, q, r) ==
  [questions |-> Append(qr.questions, q), reasoning |-> Append(qr.reasoning, r)]

(* "for m in event.measurements": the names of the measurements whose      *)
(* trend is worsening or whose severity is 6 or more.                      *)
RECURSIVE WorseningOf(_)
WorseningOf(ms) ==
  IF ms = <<>> THEN <<>>
  ELSE LET m == Head(ms)
       IN IF m.trend = "worsening" THEN <<m.name>> \o WorseningOf(Tail(ms))
          ELSE IF m.severity >= 6 THEN <<m.name>> \o WorseningOf(Tail(ms))
          ELSE WorseningOf(Tail(ms))

RECURSIVE WorseningSymptoms(_)
WorseningSymptoms(symptom_events) ==
  IF symptom_events = <<>> THEN <<>>
  ELSE WorseningOf(Head(symptom_events).measurements)
         \o WorseningSymptoms(Tail(symptom_events))

(* The first treatment event with (now - event_time).days <= 7, as a list  *)
(* of one event, or the empty list for None.                               *)
RECURSIVE RecentTreatment(_, _)
RecentTreatment(treatment_events, now) ==
  IF treatment_events = <<>> THEN <<>>
  ELSE LET t == ParseTs(Head(treatment_events).timestamp)
       IN IF t.ok /\ (now - EventTime(t)) \div 24 <= 7
          THEN <<Head(treatment_events)>>
          ELSE RecentTreatment(Tail(treatment_events), now)

(* The first wellness event with anxiety 6 or more, as a list. *)
RECURSIVE HighAnxiety(_)
HighAnxiety(wellness_events) ==
  IF wellness_events = <<>> THEN <<>>
  ELSE IF Head(wellness_events).anxiety >= 6
       THEN <<Head(wellness_events)>>
       ELSE HighAnxiety(Tail(wellness_events))

GenericQuestionsTwo ==
  <<<<Question("energy", {}), Reason("fatigue_screening", {}, 0)>>,
    <<Question("eat_drink", {}), Reason("nutrition", {}, 0)>>>>

GenericQuestions ==
  <<<<Question("energy", {}), Reason("fatigue_screening", {}, 0)>>,
    <<Question("eat_drink", {}), Reason("nutrition", {}, 0)>>,
    <<Question("pain", {}), Reason("pain_assessment", {}, 0)>>,
    <<Question("daily_activities", {}), Reason("functional_status", {}, 0)>>>>

(* "for q, r in generic_questions: if len(questions) >= 5: break; if q     *)
(* not in questions: append"                                               *)
RECURSIVE FillGeneric(_, _)
FillGeneric(qr, gs) ==
  IF gs = <<>> \/ Len(qr.questions) >= 5 THEN qr
  ELSE IF Head(gs)[1] \in {qr.questions[i] : i \in DOMAIN qr.questions}
       THEN FillGeneric(qr, Tail(gs))
       ELSE FillGeneric(Ask(qr, Head(gs)[1], Head(gs)[2]), Tail(gs))

(* xs[:n] *)
Prefix(xs, n) == SubSeq(xs, 1, IF Len(xs) < n THEN Len(xs) ELSE n)

ComputeCheckinQuestions(patient_id, window_hours, now) ==
  LET recent_events == GetRecentEvents(patient_id, window_hours, NoTypes, now)
      symptom_events == SelectSeq(recent_events, LAMBDA e : e.event_type = "symptom")
      treatment_events == SelectSeq(recent_events, LAMBDA e : e.event_type = "treatment")
      wellness_events == SelectSeq(recent_events, LAMBDA e : e.event_type = "wellness")
      worsening_symptoms == WorseningSymptoms(symptom_events)
      symptom_list == {Prefix(worsening_symptoms, 2)[i] :
                         i \in DOMAIN Prefix(worsening_symptoms, 2)}
      recent_treatment == RecentTreatment(treatment_events, now)
      anxious == HighAnxiety(wellness_events)
      q1 == IF worsening_symptoms # <<>>
            THEN Ask(NoQuestions, Question("symptom_followup", symptom_list),
                     Reason("worsening_or_severe", symptom_list, 0))
            ELSE NoQuestions
      q2 == IF recent_treatment # <<>>
            THEN Ask(q1, Question("side_effects", {recent_treatment[1].name}),
                     Reason("post_treatment_window", {recent_treatment[1].name}, 0))
            ELSE q1
      q3 == IF Len(q2.questions) < 3
            THEN Ask(q2, Question("fever", {}), Reason("safety_screen", {}, 0))
            ELSE q2
      q4 == IF wellness_events = <<>>
            THEN Ask(q3, Question("mood", {}), Reason("no_wellness_data", {}, 0))
            ELSE IF anxious # <<>>
            THEN Ask(q3, Question("anxiety_followup", {}),
                     Reason("anxiety_was_high", {}, anxious[1].anxiety))
            ELSE q3
      q5 == Ask(q4, Question("anything_else", {}), Reason("open_ended", {}, 0))
      q6 == FillGeneric(q5, GenericQuestions)
  IN [questions |-> Prefix(q6.questions, 5), reasoning |-> Prefix(q6.reasoning, 5)]

(* POST /voice/precompute-questions: 404 for an unknown patient, else the  *)
(* computed questions.                                                     *)
PrecomputeQuestions(patient_id, window_hours) ==
  /\ last' = [op |-> "precompute_questions",
              ret |-> IF ~Has(profiles, patient_id)
                      THEN [status |-> 404, questions |-> <<>>, reasoning |-> <<>>]
                      ELSE LET r == ComputeCheckinQuestions(patient_id, window_hours, UtcNow)
                           IN [status |-> 200, questions |-> r.questions,
                               reasoning |-> r.reasoning]]
  /\ UNCHANGED <<profiles, active, events, annotations, views, nextUuid, tasks, writable, disk>>

(* ------------------------------ inputs -------------------------------- *)
EvSymptom == Raw("e1", "default", TsNaive(10), "symptom")
EvWellness == Raw("e2", "default", TsGarbage, "wellness")
EvTriage == Triage("e3", "default", TsOffset(9, 5), "red", {"fever"})
EvLifestyle == [Raw("e5", "default", TsNaive(10), "lifestyle") EXCEPT !.name = "walk"]
EvOther == Raw("e1", "p1", TsNaive(8), "symptom")
EvNoPatient == Raw("e6", Absent, TsNaive(10), "symptom")
EvNoName == Raw("e6", "p2", TsNaive(10), "treatment")

EventInputs ==
  {EvSymptom, EvWellness, EvTriage, EvLifestyle, EvOther, EvNoPatient, EvNoName}

EventIds == {"e1", "e2", "e3", "e5", "e6"}

PatientIds == {"default", "p1", "p2"}

Generated == <<Profile("p1", "Generated"), <<Construct("SymptomEvent", EvOther)>>>>

ProfileInputs == {Profile("default", "Edited"), Profile("p1", "Pat One")}

GeneratedInputs == {Generated, <<Profile("default", "Generated"), <<>>>>}

ProfileIds == {"default", "p1", "p2", UuidStr[1]}

(* The timeline: every event operation, and the profile operations that    *)
(* touch event lists.                                                      *)
Next ==
  \/ \E d \in EventInputs : AddEvent(d)
  \/ \E id \in EventIds : DeleteEvent(id)
  \/ \E id \in {"default", "p1"} : SwitchProfile(id)
  \/ \E id \in {"default", "p1"} : DeleteProfile(id)
  \/ CreateProfileWithEvents(Generated[1], Generated[2])
  \/ SaveProfile(Profile("p1", "Pat One"))

Spec == Init /\ [][Next]_vars

(* The profiles: every profile operation, and two events. *)
NextProfiles ==
  \/ CreateNewProfile("Jane Roe")
  \/ \E id \in ProfileIds : SwitchProfile(id)
  \/ \E id \in ProfileIds : DeleteProfile(id)
  \/ \E g \in GeneratedInputs : CreateProfileWithEvents(g[1], g[2])
  \/ \E p \in ProfileInputs : SaveProfile(p)
  \/ \E d \in {EvTriage, EvOther} : AddEvent(d)
  \/ \E id \in {"e1", "e3"} : DeleteEvent(id)

SpecProfiles == Init /\ [][NextProfiles]_vars

(* The snapshot: profiles without an id, annotations, saved views, and a   *)
(* restart of the process on the snapshot it left.                         *)
Restart ==
  /\ LET m == LoadData(disk)
     IN /\ profiles' = m.profiles
        /\ events' = m.events
        /\ annotations' = m.annotations
        /\ views' = m.views
        /\ active' = m.active
  /\ tasks' = <<>>
  /\ last' = Result("restart", "loaded")
  /\ UNCHANGED <<nextUuid, writable, disk>>

NextSnapshot ==
  \/ \E p \in {Profile(PyNone, "No Id"), Profile("p1", "Pat One")} : SaveProfile(p)
  \/ \E id \in {"default", "p1"} : DeleteProfile(id)
  \/ \E d \in {EvTriage, EvNoName} : AddEvent(d)
  \/ DeleteEvent("e3")
  \/ AddAnnotation(Annotation("a1", "default"))
  \/ \E id \in {"a1", "a2"} : DeleteAnnotation(id)
  \/ AddSavedView(SavedView("v1", "p1"))
  \/ \E id \in {"v1", "v2"} : DeleteSavedView(id)
  \/ Restart

SpecSnapshot == Init /\ [][NextSnapshot]_vars

(* The intake: one record of each kind, one of an unknown kind and one     *)
(* without event_type.                                                     *)
EvTreatment == [Raw("e4", "default", TsZulu(7), "treatment") EXCEPT !.name = "chemo"]
EvUnknown == Raw("e7", "default", TsNaive(11), "note")
EvUntyped == Raw("e8", "default", TsNaive(11), Absent)

IntakeInputs ==
  {EvSymptom, EvWellness, EvTreatment, EvLifestyle, EvTriage, EvUnknown, EvUntyped}

NextIntake ==
  \/ \E d \in IntakeInputs : AddEvent(d)
  \/ \E id \in {"e1", "e3", "e7"} : DeleteEvent(id)

SpecIntake == Init /\ [][NextIntake]_vars

(* The failing disk: event and profile operations while the snapshot file  *)
(* can and cannot be written.                                              *)
NextFaults ==
  \/ \E b \in BOOLEAN : SetWritable(b)
  \/ \E d \in {EvTriage, EvOther} : AddEvent(d)
  \/ \E id \in {"e1", "e3"} : DeleteEvent(id)
  \/ \E id \in {"default", "p1"} : SwitchProfile(id)
  \/ \E id \in {"default", "p1"} : DeleteProfile(id)
  \/ SaveProfile(Profile("p1", "Pat One"))

SpecFaults == Init /\ [][NextFaults]_vars

(* Escalations for a known patient, an unknown one and an empty patient   *)
(* id, among other events, while the snapshot file can and cannot be       *)
(* written.                                                                *)
AgentPatients == {"default", "p1", ""}

NextEscalation ==
  \/ \E b \in BOOLEAN : SetWritable(b)
  \/ \E p \in AgentPatients : EscalateToHuman(p)
  \/ AddEvent(EvOther)
  \/ \E id \in {"e1", "ev-1"} : DeleteEvent(id)

SpecEscalation == Init /\ [][NextEscalation]_vars

(* Check-in conversations: the tool calls the language model can make in   *)
(* one message, for a patient and for an empty patient id.                 *)
CheckinStates == {[patient_id |-> p, is_complete |-> FALSE] : p \in {"default", ""}}

ToolCalls ==
  {ToolCall("log_symptom_event", Absent, Absent),
   ToolCall("log_workflow_result", "green", "ok"),
   ToolCall("log_workflow_result", "red", "ok"),
   ToolCall("log_workflow_result", "orange", "ok"),
   ToolCall("log_workflow_result", "yellow", Absent),
   ToolCall("get_weather", Absent, Absent)}

CallSeqs == {<<>>} \cup {<<c>> : c \in ToolCalls} \cup {<<c, d>> : c, d \in ToolCalls}

NextCheckin ==
  \/ \E b \in BOOLEAN : SetWritable(b)
  \/ \E st \in CheckinStates, calls \in CallSeqs : ProcessMessage(st, calls)

SpecCheckin == Init /\ [][NextCheckin]_vars

(* The question planner on every timeline of up to MaxEvents check-in     *)
(* events: symptoms that are worsening, severe and mild, a treatment in    *)
(* and one out of the short window, wellness checks with high and low      *)
(* anxiety.                                                                *)
Measurement(name, trend, severity) == [name |-> name, trend |-> trend, severity |-> severity]

CheckinEvent(d, measurements, anxiety) ==
  Construct(ClassOf(d.event_type), d) @@ [measurements |-> measurements, anxiety |-> anxiety]

CheckinEvents ==
  {CheckinEvent(Raw("s1", "default", TsNaive(10), "symptom"),
                <<Measurement("nausea", "worsening", 3)>>, 0),
   CheckinEvent(Raw("s2", "default", TsZulu(11), "symptom"),
                <<Measurement("pain", "stable", 7), Measurement("fatigue", "worsening", 2)>>, 0),
   CheckinEvent(Raw("s3", "default", TsNaive(9), "symptom"),
                <<Measurement("cough", "improving", 2)>>, 0),
   CheckinEvent([Raw("t1", "default", TsNaive(10), "treatment") EXCEPT !.name = "chemo"],
                <<>>, 0),
   CheckinEvent([Raw("t0", "default", TsNaive(3), "treatment") EXCEPT !.name = "radiation"],
                <<>>, 0),
   CheckinEvent(Raw("w1", "default", TsNaive(11), "wellness"), <<>>, 7),
   CheckinEvent(Raw("w2", "default", TsNaive(8), "wellness"), <<>>, 3)}

CheckinTimelines == UNION {[1..n -> CheckinEvents] : n \in 0..MaxEvents}

QuestionWindows == {5, 84}

InitQuestions ==
  LET s == NewProfile(<<>>, <<>>, "default", "John Doe")
  IN /\ profiles = s.profiles
     /\ active = s.active
     /\ events \in {<<[k |-> "default", v |-> evs]>> : evs \in CheckinTimelines}
     /\ annotations = <<>>
     /\ views = <<>>
     /\ tasks = <<>>
     /\ nextUuid = 0
     /\ writable = TRUE
     /\ disk = SaveData(profiles, events, <<>>, <<>>, active)
     /\ last = Result("init", "profile")

NextQuestions ==
  \E p \in {"default", "p1"}, W \in QuestionWindows : PrecomputeQuestions(p, W)

SpecQuestions == InitQuestions /\ [][NextQuestions]_vars

(* A second patient with an event, an annotation, a saved view and a      *)
(* follow-up task, whose profile is deleted and saved again.               *)
NextOrphans ==
  \/ SaveProfile(Profile("p1", "Pat One"))
  \/ \E id \in {"default", "p1"} : DeleteProfile(id)
  \/ \E d \in {EvSymptom, EvOther} : AddEvent(d)
  \/ \E pid \in {"default", "p1"} : AddAnnotation(Annotation("a1", pid))
  \/ \E pid \in {"default", "p1"} : AddSavedView(SavedView("v1", pid))
  \/ \E t \in {FollowupTask("t1", "default", "routine", "pending"),
               FollowupTask("t4", "p1", "stat", "pending")} : AddFollowupTask(t)

SpecOrphans == Init /\ [][NextOrphans]_vars

(* The seed-data generator: create_new_profile with every outcome of its   *)
(* random choices.                                                         *)
NextMock ==
  \/ \E d \in Draws : CreateNewProfileDrawn("Jane Roe", d)
  \/ \E id \in {"default", UuidStr[1]} : SwitchProfile(id)
  \/ DeleteProfile(UuidStr[1])

SpecMock == Init /\ [][NextMock]_vars

(* The clinician queue, and the profiles its tasks belong to. *)
TaskInputs ==
  {FollowupTask("t1", "default", "routine", "pending"),
   FollowupTask("t2", "default", "stat", "pending"),
   FollowupTask("t3", "default", "urgent", "pending"),
   FollowupTask("t4", "p1", "stat", "pending")}

TaskIds == {"t1", "t2", "t3", "t4", "t9"}

NextTasks ==
  \/ \E t \in TaskInputs : AddFollowupTask(t)
  \/ \E id \in TaskIds, st \in {"in_progress", "completed"} : UpdateTaskStatus(id, st)
  \/ \E id \in {"default", "p1"} : DeleteProfile(id)
  \/ SaveProfile(Profile("p1", "Pat One"))

SpecTasks == Init /\ [][NextTasks]_vars

(* ============================== claims =============================== *)
Count(s, e) == Cardinality({i \in DOMAIN s : s[i] = e})

Range(s) == {s[i] : i \in DOMAIN s}

SameBag(s, t) == \A e \in Range(s) \cup Range(t) : Count(s, e) = Count(t, e)

Stored(P) == GetOr(events, P, <<>>)

Nows == {12}
Windows == {0, 2, 5, 24}

(* C1: for every patient, get_events returns the patient's stored events   *)
(* (each as often as it is stored) with no event followed by one whose     *)
(* timestamp string is greater.                                            *)
C1_GetEventsSorted ==
  \A P \in PatientIds :
    LET r == GetEvents(P)
    IN /\ SameBag(r, Stored(P))
       /\ \A i \in 1..(Len(r) - 1) : ~StrLess(r[i].timestamp, r[i + 1].timestamp)

(* Three events of one patient stored in an order that is not descending,  *)
(* with three different timestamps, one of them not a date.                *)
C1_Witness ==
  /\ Len(Stored("default")) = 3
  /\ GetEvents("default") # Stored("default")
  /\ Cardinality({Stored("default")[i].timestamp : i \in 1..3}) = 3
  /\ \E i \in 1..3 : ~ParseTs(Stored("default")[i].timestamp).ok

(* The window test the claims state: the timestamp parses and its parsed   *)
(* date-time is at or after now minus W hours.                             *)
InWindow(e, W, now) ==
  ParseTs(e.timestamp).ok /\ ParseTs(e.timestamp).naive >= now - W

Filters == {{}, {"wellness"}, {"symptom", "workflow_result"}}

(* C2: with no type filter, get_recent_events(P, W) returns exactly the    *)
(* stored events of P whose timestamp parses to a time at or after         *)
(* now - W, each as often as it is stored; an event whose timestamp does   *)
(* not parse is left out and the query still returns.                      *)
C2_RecentExact ==
  \A P \in PatientIds, W \in Windows, now \in Nows :
    LET r == GetRecentEvents(P, W, NoTypes, now)
    IN \A e \in Range(Stored(P)) \cup Range(r) :
         Count(r, e) = IF InWindow(e, W, now) THEN Count(Stored(P), e) ELSE 0

(* One patient holds an event on the cutoff, an older one and one whose    *)
(* timestamp is not a date; the query returns the first alone.             *)
C2_Witness ==
  /\ last = Result("add_event", "event")
  /\ \E i, j, k \in DOMAIN Stored("default") :
       /\ ParseTs(Stored("default")[i].timestamp).naive = 12 - 2
       /\ ParseTs(Stored("default")[i].timestamp).ok
       /\ ParseTs(Stored("default")[j].timestamp).ok
       /\ ~InWindow(Stored("default")[j], 2, 12)
       /\ ~ParseTs(Stored("default")[k].timestamp).ok
  /\ Len(GetRecentEvents("default", 2, NoTypes, 12)) = 1

(* C3: with a type filter, get_recent_events returns exactly the in-window *)
(* events whose event_type is in the filter; a patient whose only          *)
(* in-window event is a Symptom gets the empty list for {wellness} and a   *)
(* one-element list for no filter.                                         *)
C3_RecentFiltered ==
  \A P \in PatientIds, W \in Windows, now \in Nows :
    /\ \A F \in Filters :
         LET r == GetRecentEvents(P, W, Types(F), now)
         IN \A e \in Range(Stored(P)) \cup Range(r) :
              Count(r, e) = IF InWindow(e, W, now) /\ e.event_type \in F
                            THEN Count(Stored(P), e) ELSE 0
    /\ LET inw == SelectSeq(Stored(P), LAMBDA e : InWindow(e, W, now))
       IN (Len(inw) = 1 /\ inw[1].event_type = "symptom")
            => /\ GetRecentEvents(P, W, Types({"wellness"}), now) = <<>>
               /\ Len(GetRecentEvents(P, W, NoTypes, now)) = 1

(* A patient with a Wellness event outside the window and a Symptom as     *)
(* the only event inside it, queried with a filter that names another type.*)
C3_Witness ==
  /\ \E i, j \in DOMAIN Stored("default") :
       /\ Stored("default")[i].event_type = "symptom"
       /\ Stored("default")[j].event_type = "wellness"
  /\ Len(SelectSeq(Stored("default"), LAMBDA e : InWindow(e, 2, 12))) = 1
  /\ GetRecentEvents("default", 2, Types({"wellness"}), 12) = <<>>
  /\ Len(GetRecentEvents("default", 2, Types({"symptom", "workflow_result"}), 12)) = 1
  /\ Len(GetRecentEvents("default", 24, Types({"symptom", "workflow_result"}), 12)) > 1

StoredIn(E, P) == GetOr(E, P, <<>>)

Carried(E, id) == \E i \in DOMAIN E : \E j \in DOMAIN E[i].v : E[i].v[j].id = id

(* C4: after a successful add_event(record) for patient P, get_events(P)   *)
(* contains the added event exactly once and every event P had before.     *)
C4_AddedExactlyOnce ==
  [][\A d \in EventInputs :
       (AddEvent(d) /\ last'.ret = "event")
         => LET e == Construct(ClassOf(d.event_type), d)
                before == SortedDesc(StoredIn(events, d.patient_id))
                after == SortedDesc(StoredIn(events', d.patient_id))
            IN /\ Count(after, e) = 1
               /\ \A x \in Range(before) : Count(after, x) >= Count(before, x)]_vars

(* C5: after delete_event(id) returns, get_events returns no event with    *)
(* that id for any patient.                                                *)
C5_DeletedIdGone ==
  [][\A id \in EventIds :
       DeleteEvent(id)
         => \A P \in PatientIds :
              \A x \in Range(SortedDesc(StoredIn(events', P))) : x.id # id]_vars

(* C6: delete_event(id) with an id no stored event carries returns false   *)
(* and leaves every event list and the snapshot as they were; with a       *)
(* stored id it returns true and removes exactly one event carrying the    *)
(* id, every other event of every patient staying in place.                *)
C6_DeleteEventFrame ==
  [][\A id \in EventIds :
       DeleteEvent(id)
         => IF ~Carried(events, id)
            THEN /\ last'.ret = "false"
                 /\ \A P \in PatientIds : StoredIn(events', P) = StoredIn(events, P)
                 /\ Keys(events') = Keys(events)
                 /\ disk' = disk
            ELSE /\ last'.ret = "true"
                 /\ Keys(events') = Keys(events)
                 /\ \E P \in PatientIds :
                      /\ \E j \in DOMAIN StoredIn(events, P) :
                           /\ StoredIn(events, P)[j].id = id
                           /\ StoredIn(events', P) = RemoveAt(StoredIn(events, P), j)
                      /\ \A Q \in PatientIds \ {P} :
                           StoredIn(events', Q) = StoredIn(events, Q)]_vars

(* delete_event has just returned false while two patients hold events     *)
(* and the snapshot is older than the memory: nothing was written.         *)
C6_Witness ==
  /\ last = Result("delete_event", "false")
  /\ Stored("default") # <<>>
  /\ Stored("p1") # <<>>
  /\ disk # SaveData(profiles, events, annotations, views, active)

(* C9: a stored WorkflowResult event is still returned by get_events for   *)
(* its patient, unchanged, after every later store operation.              *)
C9_WorkflowResultKept ==
  [][\A P \in PatientIds :
       \A e \in Range(SortedDesc(StoredIn(events, P))) :
         e.cls = "WorkflowResultEvent"
           => Count(SortedDesc(StoredIn(events', P)), e)
                >= Count(SortedDesc(StoredIn(events, P)), e)]_vars

(* C7: the store always holds at least one profile, and delete_profile of  *)
(* the only remaining profile leaves exactly one profile, the bootstrapped *)
(* default, which is then the active one.                                  *)
C7_NeverZeroProfiles ==
  /\ [](Len(profiles) >= 1)
  /\ [][\A id \in ProfileIds :
          (DeleteProfile(id) /\ Has(profiles, id) /\ Len(profiles) = 1)
            => /\ profiles' = <<[k |-> "default", v |-> Profile("default", "John Doe")]>>
               /\ active' = "default"
               /\ StoredIn(events', "default") = <<>>]_vars

(* delete_profile has just returned true and left the bootstrap profile    *)
(* alone; its event list was created after the list of p1, so the default  *)
(* profile was deleted and bootstrapped again.                             *)
C7_Witness ==
  /\ last = Result("delete_profile", "true")
  /\ profiles = <<[k |-> "default", v |-> Profile("default", "John Doe")]>>
  /\ Len(events) = 2
  /\ events[1].k = "p1"
  /\ events[2].k = "default"

(* C8: the active-profile pointer names exactly one stored profile, so     *)
(* get_active_profile finds a profile.                                     *)
C8_ActiveIsStored ==
  /\ Has(profiles, active)
  /\ Cardinality({i \in DOMAIN profiles : profiles[i].k = active}) = 1
  /\ GetActiveProfile = Get(profiles, active)
  /\ GetActiveProfile.id = active

(* delete_profile has just removed the bootstrap profile and the pointer   *)
(* moved to the first profile left.                                        *)
C8_Witness ==
  /\ last = Result("delete_profile", "true")
  /\ ~Has(profiles, "default")
  /\ Len(profiles) = 1
  /\ active = profiles[1].k
  /\ GetActiveProfile.name = "Pat One"

(* C10: saving the store and loading the snapshot gives the same profiles, *)
(* events (each of its class), annotations, saved views and active pointer.*)
C10_RoundTrip ==
  LoadData(SaveData(profiles, events, annotations, views, active)) = Memory

(* C11: after every mutating operation, and at every moment between        *)
(* operations, the snapshot is the document of the in-memory profiles,     *)
(* events, annotations, saved views and active pointer.                    *)
C11_SnapshotCurrent ==
  disk = SaveData(profiles, events, annotations, views, active)

(* C12: an add_event call that fails validation leaves every event list,   *)
(* the set of patients that have an event list, the profiles, the active   *)
(* pointer and the snapshot as they were.                                  *)
C12_FailedAddNoEffect ==
  [][\A d \in EventInputs :
       (AddEvent(d) /\ last'.ret \in {"ValueError", "ValidationError"})
         => /\ Keys(events') = Keys(events)
            /\ \A P \in PatientIds : StoredIn(events', P) = StoredIn(events, P)
            /\ profiles' = profiles
            /\ active' = active
            /\ disk' = disk]_vars

WellFormed(d) == ~Falsy(d.patient_id) /\ Validates(ClassOf(d.event_type), d)

(* C13: while the snapshot cannot be written, a mutating operation still   *)
(* gives its caller the normal result: add_event the event, delete_event   *)
(* true, switch_profile the profile.                                       *)
C13_WriteFailureCaught ==
  [][~writable =>
       /\ \A d \in {EvTriage, EvOther} :
            (AddEvent(d) /\ WellFormed(d)) => last'.ret = "event"
       /\ \A id \in {"e1", "e3"} :
            (DeleteEvent(id) /\ Carried(events, id)) => last'.ret = "true"
       /\ \A id \in {"default", "p1"} :
            (SwitchProfile(id) /\ Has(profiles, id)) => last'.ret = "profile"]_vars

(* C14: when the snapshot write of a mutating operation fails, the         *)
(* in-memory effect of the operation is complete: the added event is in    *)
(* its patient's list and returned by get_events, the deleted event is     *)
(* gone from its list, the deleted profile and its event list are gone     *)
(* (or replaced by the bootstrap profile with an empty list) with the      *)
(* active pointer on a stored profile, the switched pointer is switched,   *)
(* and nothing else has changed.                                           *)
C14_FailedWriteKeepsMutation ==
  [][last'.ret = "OSError" =>
       /\ \A d \in {EvTriage, EvOther} :
            AddEvent(d)
              => LET e == Construct(ClassOf(d.event_type), d)
                 IN /\ StoredIn(events', d.patient_id)
                         = Append(StoredIn(events, d.patient_id), e)
                    /\ Count(SortedDesc(StoredIn(events', d.patient_id)), e)
                         = Count(StoredIn(events, d.patient_id), e) + 1
                    /\ \A Q \in PatientIds \ {d.patient_id} :
                         StoredIn(events', Q) = StoredIn(events, Q)
                    /\ profiles' = profiles /\ active' = active
       /\ \A id \in {"e1", "e3"} :
            DeleteEvent(id)
              => /\ \E P \in PatientIds :
                      /\ \E j \in DOMAIN StoredIn(events, P) :
                           /\ StoredIn(events, P)[j].id = id
                           /\ StoredIn(events', P) = RemoveAt(StoredIn(events, P), j)
                      /\ \A Q \in PatientIds \ {P} :
                           StoredIn(events', Q) = StoredIn(events, Q)
                 /\ profiles' = profiles /\ active' = active
       /\ \A id \in {"default", "p1"} :
            DeleteProfile(id)
              => /\ Has(profiles', active')
                 /\ StoredIn(events', id) = <<>>
                 /\ IF Len(profiles) = 1
                    THEN /\ profiles' = <<[k |-> "default", v |-> Profile("default", "John Doe")]>>
                         /\ Has(events', "default")
                    ELSE /\ profiles' = Del(profiles, id)
                         /\ ~Has(events', id)
                 /\ \A Q \in PatientIds \ {id, "default"} :
                      StoredIn(events', Q) = StoredIn(events, Q)
       /\ \A id \in {"default", "p1"} :
            SwitchProfile(id)
              => active' = id /\ profiles' = profiles /\ events' = events
       /\ SaveProfile(Profile("p1", "Pat One"))
            => /\ GetOr(profiles', "p1", PyNone) = Profile("p1", "Pat One")
               /\ Has(events', "p1")
               /\ active' = active]_vars

(* delete_profile has just failed to write the snapshot: the profile p1    *)
(* and its events are gone from memory and still in the file.              *)
C14_Witness ==
  /\ last = Result("delete_profile", "OSError")
  /\ ~Has(profiles, "p1")
  /\ ~Has(events, "p1")
  /\ Has(JsonObject(disk.profiles), "p1")
  /\ GetOr(JsonObject(disk.events), "p1", <<>>) # <<>>

(* C15: no two stored events, of one patient or of two, carry the same id. *)
C15_EventIdsUnique ==
  \A id \in EventIds : Cardinality(Hits(events, id)) <= 1

(* C16: add_event stores a record of one of the five kinds as the variant  *)
(* of that kind, and accepts a record whose event_type is missing or       *)
(* unknown, storing it as a base event.                                    *)
C16_DispatchOnType ==
  [][\A d \in IntakeInputs :
       AddEvent(d)
         => /\ last'.ret = "event"
            /\ LET after == StoredIn(events', d.patient_id)
               IN /\ after[Len(after)].id = d.id
                  /\ after[Len(after)].cls = ClassOf(d.event_type)]_vars

(* C17: after delete_profile(id) of a stored profile,                       *)
(* get_profile(id) finds nothing and get_events(id) is empty, whatever the *)
(* id, and every other patient's profile and events are as before;         *)
(* delete_profile of an unknown id returns false and changes nothing.      *)
(* get_profile(id) is None exactly when id is no key of the profiles.      *)
C17_DeletedProfileAbsent ==
  [][\A id \in ProfileIds :
       DeleteProfile(id)
         => IF Has(profiles, id)
            THEN /\ last'.ret = "true"
                 /\ ~Has(profiles', id)
                 /\ GetEvents(id)' = <<>>
                 /\ \A Q \in ProfileIds \ {id} :
                      /\ Has(profiles', Q) <=> Has(profiles, Q)
                      /\ Has(profiles, Q) => GetProfile(Q)' = GetProfile(Q)
                      /\ StoredIn(events', Q) = StoredIn(events, Q)
            ELSE /\ last'.ret = "false"
                 /\ profiles' = profiles /\ active' = active
                 /\ events' = events /\ disk' = disk]_vars

(* C18: switch_profile of an id that names no profile returns None and     *)
(* leaves the active pointer, the profiles, the events and the snapshot    *)
(* as they were; of a known id it makes that profile the active one and    *)
(* changes no profile, event, annotation or saved view.                    *)
C18_SwitchProfileEffect ==
  [][\A id \in ProfileIds :
       SwitchProfile(id)
         => IF Has(profiles, id)
            THEN /\ last'.ret = "profile"
                 /\ active' = id
                 /\ GetActiveProfile' = Get(profiles, id)
                 /\ profiles' = profiles /\ events' = events
                 /\ annotations' = annotations /\ views' = views
            ELSE /\ last'.ret = "none"
                 /\ active' = active /\ profiles' = profiles
                 /\ events' = events /\ disk' = disk]_vars

(* switch_profile has just refused an unknown id while two profiles are    *)
(* stored and the active one is not the bootstrap profile.                 *)
C18_Witness ==
  /\ last = Result("switch_profile", "none")
  /\ Len(profiles) = 2
  /\ active # "default"

TasksOf(P) == GetOr(tasks, P, <<>>)

(* C20: get_followup_tasks(P, status) returns exactly the tasks of P whose *)
(* status is the given one (all tasks of P when none is given), each as    *)
(* often as it is stored, with every stat task before every urgent task    *)
(* and every urgent task before every routine task.                        *)
C20_TasksByUrgency ==
  \A P \in PatientIds, status \in TaskStatuses \cup {PyNone} :
    LET r == GetFollowupTasks(P, status)
    IN /\ \A t \in Range(TasksOf(P)) \cup Range(r) :
            Count(r, t) = IF status = PyNone \/ t.status = status
                          THEN Count(TasksOf(P), t) ELSE 0
       /\ \A i, j \in DOMAIN r :
            i < j => /\ r[j].urgency = "stat" => r[i].urgency = "stat"
                     /\ r[j].urgency = "urgent" => r[i].urgency \in {"stat", "urgent"}

(* One patient holds a routine, an urgent and a stat task, stored in that  *)
(* order, the urgent one completed: the query for pending tasks returns    *)
(* the stat task and then the routine one.                                 *)
C20_Witness ==
  /\ last = Result("update_task_status", "task")
  /\ Len(TasksOf("default")) = 3
  /\ TasksOf("default")[1].urgency = "routine"
  /\ TasksOf("default")[2].urgency = "urgent"
  /\ TasksOf("default")[2].status = "completed"
  /\ TasksOf("default")[3].urgency = "stat"
  /\ Len(GetFollowupTasks("default", "pending")) = 2
  /\ GetFollowupTasks("default", "pending")[1].urgency = "stat"
  /\ Len(GetFollowupTasks("default", PyNone)) = 3

(* C21: a stored follow-up task stays listed for its patient, at its       *)
(* place, with every field other than status unchanged, across every       *)
(* later operation; update_task_status with an id no task carries returns  *)
(* None and changes no task.                                               *)
C21_TasksOnlyAdvance ==
  /\ [](\A P \in PatientIds : \A i \in DOMAIN TasksOf(P) :
          Count(GetFollowupTasks(P, PyNone), TasksOf(P)[i]) >= 1)
  /\ [][/\ \A P \in PatientIds :
             /\ Len(TasksOf(P)') >= Len(TasksOf(P))
             /\ \A i \in DOMAIN TasksOf(P) :
                  /\ TasksOf(P)'[i].id = TasksOf(P)[i].id
                  /\ TasksOf(P)'[i].patient_id = TasksOf(P)[i].patient_id
                  /\ TasksOf(P)'[i].urgency = TasksOf(P)[i].urgency
        /\ \A id \in TaskIds, st \in TaskStatuses :
             (UpdateTaskStatus(id, st) /\ Hits(tasks, id) = {})
               => last'.ret = "none" /\ tasks' = tasks]_vars

(* The profile of a patient with two tasks, one of them completed, has     *)
(* just been deleted and the tasks are still listed.                       *)
C21_Witness ==
  /\ last = Result("delete_profile", "true")
  /\ ~Has(profiles, "p1")
  /\ Len(TasksOf("default")) = 2
  /\ Len(TasksOf("p1")) = 1
  /\ \E i \in DOMAIN TasksOf("default") : TasksOf("default")[i].status = "completed"
  /\ Len(GetFollowupTasks("p1", PyNone)) = 1

(* C22: after the startup bootstrap no operation creates a profile under   *)
(* the id "default" or replaces the one stored there.                      *)
C22_DefaultReserved ==
  [][Has(profiles', "default")
       => /\ Has(profiles, "default")
          /\ Get(profiles', "default") = Get(profiles, "default")]_vars

Sampled(p) == "regimen" \in DOMAIN p

(* C23: every profile create_new_profile has produced carries a regimen    *)
(* of the four-regimen list, namely the one listed at the position of its  *)
(* cancer type, and an ECOG score in 0..2; and no two stored profiles      *)
(* share an id.                                                            *)
C23_MockProfileConsistent ==
  /\ \A i \in DOMAIN profiles :
       Sampled(profiles[i].v)
         => /\ profiles[i].v.regimen \in Range(Regimens)
            /\ \E c \in DOMAIN CancerTypes :
                 /\ profiles[i].v.cancer_type = CancerTypes[c]
                 /\ profiles[i].v.regimen = Regimens[c]
            /\ profiles[i].v.ecog_score \in 0..2
  /\ \A i, j \in DOMAIN profiles : i # j => profiles[i].v.id # profiles[j].v.id

WithTimestamp(s, t) == SelectSeq(s, LAMBDA e : e.timestamp = t)

IntakeTimestamps == {d.timestamp : d \in IntakeInputs}

(* C24: among the events of one patient that carry one timestamp,          *)
(* get_events returns them in the order of adding and get_recent_events    *)
(* returns the in-window ones in that order: the queries keep the order    *)
(* of the stored list, an added event is stored after the events added     *)
(* before it, and a delete takes one event out and leaves the others in    *)
(* their order.                                                            *)
C24_StableOrder ==
  /\ [](\A P \in PatientIds, t \in IntakeTimestamps :
          /\ WithTimestamp(GetEvents(P), t) = WithTimestamp(Stored(P), t)
          /\ \A W \in Windows, now \in Nows :
               WithTimestamp(GetRecentEvents(P, W, NoTypes, now), t)
                 = IF ParseTs(t).ok /\ ParseTs(t).naive >= now - W
                   THEN WithTimestamp(Stored(P), t)
                   ELSE <<>>)
  /\ [][/\ \A d \in IntakeInputs :
             (AddEvent(d) /\ last'.ret = "event")
               => StoredIn(events', d.patient_id)
                    = Append(StoredIn(events, d.patient_id),
                             Construct(ClassOf(d.event_type), d))
        /\ \A id \in EventIds, P \in PatientIds :
             DeleteEvent(id)
               => \/ StoredIn(events', P) = StoredIn(events, P)
                  \/ \E j \in DOMAIN StoredIn(events, P) :
                       StoredIn(events', P) = RemoveAt(StoredIn(events, P), j)]_vars

(* After adds and a delete one patient holds two events with the same      *)
(* timestamp, the lifestyle event added before the symptom event, and      *)
(* both queries return them in that order.                                 *)
C24_Witness ==
  /\ last = Result("delete_event", "true")
  /\ Len(GetEvents("default")) = 2
  /\ GetEvents("default")[1].id = "e5"
  /\ GetEvents("default")[2].id = "e1"
  /\ GetEvents("default")[1].timestamp = GetEvents("default")[2].timestamp
  /\ GetRecentEvents("default", 2, NoTypes, 12) = GetEvents("default")


(* The hour a timestamp writes, and the hour of the instant it denotes     *)
(* (the written hour less the UTC offset it carries).                      *)
WrittenHour(ts) == Num2(ts, 1)
InstantHour(ts) == Num2(ts, 1) - ParseTs(ts).off

(* C25: for a stored event whose timestamp carries a timezone (an offset   *)
(* or Z), get_recent_events(P, W) returns the event exactly when the hour  *)
(* written in the timestamp is at or after the UTC cutoff now - W; the     *)
(* offset is dropped and not applied, so the instant plays no part.        *)
C25_WindowTestNaive ==
  \A P \in PatientIds, W \in Windows, now \in Nows :
    LET r == GetRecentEvents(P, W, NoTypes, now)
    IN \A e \in Range(Stored(P)) :
         ParseTs(e.timestamp).aware
           => Count(r, e) = IF WrittenHour(e.timestamp) >= now - W
                            THEN Count(Stored(P), e)
                            ELSE 0

(* An event written as 09:00+05:00 (04:00 UTC) is stored; the query with   *)
(* the cutoff at 07:00 UTC returns it although its instant is before the   *)
(* cutoff.                                                                 *)
C25_Witness ==
  \E i \in DOMAIN Stored("default") :
    LET e == Stored("default")[i]
    IN /\ ParseTs(e.timestamp).aware
       /\ ParseTs(e.timestamp).off > 0
       /\ WrittenHour(e.timestamp) >= 12 - 5
       /\ InstantHour(e.timestamp) < 12 - 5
       /\ Count(GetRecentEvents("default", 5, NoTypes, 12), e) = 1


(* The lists of type names handed to the tool: each kind alone and lists   *)
(* of two and three kinds.                                                 *)
ToolFilters ==
  {<<"symptom">>, <<"wellness">>, <<"treatment">>, <<"lifestyle">>,
   <<"workflow_result">>, <<"symptom", "lifestyle">>,
   <<"workflow_result", "treatment", "symptom">>}

(* C26: the get_recent_events tool, given a list of type names, returns    *)
(* exactly the stored events of the patient that are in the window and     *)
(* whose type name is in the list, each as often as it is stored.          *)
C26_ToolFilterExact ==
  \A P \in PatientIds, W \in Windows, now \in Nows, l \in ToolFilters :
    LET r == ToolGetRecentEvents(P, W, Names(l), now)
    IN \A e \in Range(Stored(P)) \cup Range(r) :
         Count(r, e) = IF InWindow(e, W, now) /\ e.event_type \in Range(l)
                       THEN Count(Stored(P), e)
                       ELSE 0


(* The escalation event escalate_to_human logs for P under the id it drew. *)
EscalationEvent(P, id) ==
  Construct("WorkflowResultEvent",
            [Raw(id, P, TsZulu(UtcNow), "workflow_result") EXCEPT
               !.workflow_name = "human_escalation",
               !.route = "red",
               !.clinician_summary = "ESCALATION",
               !.safety_flags = {"human_escalation_triggered"}])

(* The events the snapshot file holds for P. *)
OnDisk(doc, P) == IF Has(doc.events, P) THEN Get(doc.events, P) ELSE <<>>

Explains(r, q) ==
  /\ r.r = CASE q.q = "symptom_followup" -> "worsening_or_severe"
             [] q.q = "side_effects" -> "post_treatment_window"
             [] q.q = "fever" -> "safety_screen"
             [] q.q = "mood" -> "no_wellness_data"
             [] q.q = "anxiety_followup" -> "anxiety_was_high"
             [] q.q = "anything_else" -> "open_ended"
             [] q.q = "energy" -> "fatigue_screening"
             [] q.q = "eat_drink" -> "nutrition"
             [] q.q = "pain" -> "pain_assessment"
             [] q.q = "daily_activities" -> "functional_status"
             [] OTHER -> "<none>"
  /\ r.arg = q.arg

FiveQuestions(r) ==
  /\ Len(r.questions) = 5
  /\ Len(r.reasoning) = 5
  /\ \A i \in 1..5 : Explains(r.reasoning[i], r.questions[i])
  /\ Question("fever", {}) \in Range(r.questions)
  /\ Question("anything_else", {}) \in Range(r.questions)
  /\ Cardinality(Range(r.questions)) = 5

(* C28: for every timeline and every window, compute_checkin_questions     *)
(* returns 5 questions and 5 reasoning entries, entry i being the one      *)
(* appended with question i; the fever question and the open-ended         *)
(* question are among the five and no question occurs twice.  The          *)
(* endpoint returns that result for a patient with a profile.              *)
C28_FiveQuestions ==
  /\ \A P \in {"default", "p1"}, W \in QuestionWindows :
       FiveQuestions(ComputeCheckinQuestions(P, W, UtcNow))
  /\ (last.op = "precompute_questions" /\ last.ret.status = 200)
       => FiveQuestions(last.ret)

(* The planner answered for a timeline with a worsening symptom, a recent  *)
(* treatment and a wellness check with high anxiety: the five questions    *)
(* are the three follow-ups, the fever screen and the open-ended one.      *)
C28_Witness ==
  /\ last.op = "precompute_questions"
  /\ last.ret.status = 200
  /\ {last.ret.questions[i].q : i \in DOMAIN last.ret.questions}
       = {"symptom_followup", "side_effects", "fever", "anxiety_followup", "anything_else"}


(* C29: whenever process_message returns a state with is_complete true,    *)
(* one of its log_workflow_result calls stored a new WorkflowResult event  *)
(* of the check-in for the patient of the conversation, with the route     *)
(* the call names.                                                         *)
C29_CompleteMeansLogged ==
  [][\A st \in CheckinStates, calls \in CallSeqs :
       (ProcessMessage(st, calls) /\ last'.ret = "complete") =>
         \E i \in DOMAIN calls :
           /\ calls[i].tool = "log_workflow_result"
           /\ \E j \in DOMAIN StoredIn(events', st.patient_id) :
                LET e == StoredIn(events', st.patient_id)[j]
                IN /\ e.cls = "WorkflowResultEvent"
                   /\ e.workflow_name = "health_checkin"
                   /\ e.route = calls[i].route
                   /\ e.id \notin StoredEventIds(events)]_vars


(* C30: delete_profile changes no annotation, saved view or follow-up      *)
(* task: get_annotations and get_saved_views give for every patient, the   *)
(* deleted one included, what they gave before, the stored tasks, which    *)
(* are what get_followup_tasks returns, stay as they are, and a later      *)
(* save_profile under the id changes none of the three either; the events  *)
(* of a deleted profile are gone.                                          *)
C30_DeleteKeepsAuxiliary ==
  /\ [](\A P \in PatientIds : SameBag(GetFollowupTasks(P, PyNone), TasksOf(P)))
  /\ [][/\ \A id \in {"default", "p1"} :
             DeleteProfile(id) =>
               /\ \A P \in PatientIds :
                    /\ GetAnnotations(P)' = GetAnnotations(P)
                    /\ GetSavedViews(P)' = GetSavedViews(P)
                    /\ TasksOf(P)' = TasksOf(P)
               /\ tasks' = tasks
               /\ last'.ret = "true" => StoredIn(events', id) = <<>>
        /\ SaveProfile(Profile("p1", "Pat One")) =>
             /\ annotations' = annotations
             /\ views' = views
             /\ tasks' = tasks]_vars

(* The profile of a patient who had an annotation, a saved view and a      *)
(* task was deleted: the three are still returned for the id and no event  *)
(* is.                                                                     *)
C30_Witness ==
  /\ last = Result("delete_profile", "true")
  /\ ~Has(profiles, "p1")
  /\ GetAnnotations("p1") = <<Annotation("a1", "p1")>>
  /\ GetSavedViews("p1") = <<SavedView("v1", "p1")>>
  /\ GetFollowupTasks("p1", PyNone) = <<FollowupTask("t4", "p1", "stat", "pending")>>
  /\ GetEvents("p1") = <<>>

====
